---- MODULE Spec2Model ----
(***************************************************************************)
(* Model of HandshakeHash (src/src/hash_hs.rs): a running hash of the      *)
(* handshake payloads which buffers until the hash function is known and   *)
(* keeps the raw transcript while client auth is enabled.                  *)
(*                                                                         *)
(* Program state: ctx, client_auth_enabled, buffer.                        *)
(* Observation of the last call: op, arg, ret, pre (the fields as they     *)
(* were when the call was made), panicked (an assert!/unwrap failed).      *)
(* History of the calls made so far: fed, fedSinceDrain, selCapture,       *)
(* abandonedOn, abandonedActive, abandonThenFeeds, hashed, taken,          *)
(* drainedBeforeStart, enabledFirst, abandoned, repeated (see Track).      *)
(***************************************************************************)
EXTENDS Integers, Sequences, FiniteSets, TLC

VARIABLES ctx, client_auth_enabled, buffer,
          panicked, op, arg, ret, pre,
          fed, fedSinceDrain, selCapture,
          abandonedOn, abandonedActive, abandonThenFeeds,
          hashed, taken, drainedBeforeStart, enabledFirst, abandoned, repeated

prog == <<ctx, client_auth_enabled, buffer>>
vars == <<ctx, client_auth_enabled, buffer, panicked, op, arg, ret, pre,
          fed, fedSinceDrain, selCapture,
          abandonedOn, abandonedActive, abandonThenFeeds,
          hashed, taken, drainedBeforeStart, enabledFirst, abandoned,
          repeated>>

(* ---- bounds ---- *)
MaxFed == 3       \* total number of bytes fed over the accumulator's life
MaxChunk == 2     \* longest slice passed to one update_raw call
ByteMax == 1      \* byte values are 0..ByteMax
NumAlgs == 2      \* digest algorithms are 1..NumAlgs

Byte == 0..ByteMax
Algs == 1..NumAlgs

RECURSIVE SeqsUpTo(_)
SeqsUpTo(n) ==
  IF n = 0 THEN {<<>>}
  ELSE LET S == SeqsUpTo(n - 1)
       IN S \cup {Append(s, b) : s \in {t \in S : Len(t) = n - 1}, b \in Byte}

Chunks == SeqsUpTo(MaxChunk)

(* ---- the digest engine (ring::digest) as the accumulator uses it ---- *)
\* The engine absorbs bytes one at a time into a running state; two inputs
\* give the same state only if they are the same byte string.
Radix == ByteMax + 2

NoCtx == [some |-> FALSE, alg |-> 0, st |-> 0]

ContextNew(alg) == [some |-> TRUE, alg |-> alg, st |-> 0]

RECURSIVE ContextUpdate(_, _)
ContextUpdate(c, buf) ==
  IF buf = <<>> THEN c
  ELSE ContextUpdate([c EXCEPT !.st = c.st * Radix + Head(buf) + 1], Tail(buf))

\* clone().finish(): the digest bytes of what the context has absorbed.
ContextFinish(c) == <<c.alg, c.st>>

\* One-shot digest of a byte string, the reference the claims compare with.
RECURSIVE Pow(_, _)
Pow(b, n) == IF n = 0 THEN 1 ELSE b * Pow(b, n - 1)

RECURSIVE Weigh(_)
Weigh(s) ==
  IF s = <<>> THEN 0
  ELSE (Head(s) + 1) * Pow(Radix, Len(s) - 1) + Weigh(Tail(s))

Digest(alg, s) == <<alg, Weigh(s)>>

(* ---- the accumulator ---- *)
Fields == [ctx |-> ctx, client_auth_enabled |-> client_auth_enabled,
           buffer |-> buffer]

Init ==
  /\ ctx = NoCtx
  /\ client_auth_enabled = FALSE
  /\ buffer = <<>>
  /\ panicked = FALSE
  /\ op = "new"
  /\ arg = <<>>
  /\ ret = <<>>
  /\ pre = [ctx |-> NoCtx, client_auth_enabled |-> FALSE, buffer |-> <<>>]
  /\ fed = <<>>
  /\ fedSinceDrain = <<>>
  /\ selCapture = "none"
  /\ abandonedOn = FALSE
  /\ abandonedActive = FALSE
  /\ abandonThenFeeds = FALSE
  /\ hashed = <<>>
  /\ taken = <<>>
  /\ drainedBeforeStart = FALSE
  /\ enabledFirst = FALSE
  /\ abandoned = FALSE
  /\ repeated = FALSE

\* What the call `name` with argument `a`, made in the current state and
\* running to completion, adds to the history:
\*   fed              every byte ever passed to update_raw, in order
\*   fedSinceDrain    the bytes passed to update_raw since the last
\*                    abandon_client_auth or take_handshake_buf
\*   selCapture       "none" before start_hash, then "on"/"off": the value of
\*                    client_auth_enabled when start_hash was called
\*   abandonedOn      abandon_client_auth was called with client_auth_enabled
\*   abandonedActive  ... and with a live context as well
\*   abandonThenFeeds abandon_client_auth was called and every call since
\*                    has been update_raw
\*   hashed           the bytes passed to the context's update, in order:
\*                    the buffer at start_hash, then every slice fed since
\*   taken            the concatenation of everything take_handshake_buf
\*                    has returned
\*   drainedBeforeStart  abandon_client_auth or take_handshake_buf was
\*                    called while there was no context
\*   enabledFirst     set_client_auth_enabled was called before any byte
\*                    was fed
\*   abandoned        abandon_client_auth was called
\*   repeated         the last call was to the same method as the call
\*                    before it, which had returned
Track(name, a) ==
  /\ fed' = IF name = "update_raw" THEN fed \o a ELSE fed
  /\ fedSinceDrain' =
       IF name \in {"abandon_client_auth", "take_handshake_buf"} THEN <<>>
       ELSE IF name = "update_raw" THEN fedSinceDrain \o a
       ELSE fedSinceDrain
  /\ selCapture' =
       IF name = "start_hash"
       THEN (IF client_auth_enabled THEN "on" ELSE "off")
       ELSE selCapture
  /\ abandonedOn' =
       (abandonedOn \/ (name = "abandon_client_auth" /\ client_auth_enabled))
  /\ abandonedActive' =
       (abandonedActive
          \/ (name = "abandon_client_auth" /\ client_auth_enabled /\ ctx.some))
  /\ abandonThenFeeds' =
       IF name = "abandon_client_auth" THEN TRUE
       ELSE abandonThenFeeds /\ name = "update_raw"
  /\ hashed' =
       IF name = "start_hash" THEN buffer
       ELSE IF name = "update_raw" /\ ctx.some THEN hashed \o a
       ELSE hashed
  /\ taken' = IF name = "take_handshake_buf" THEN taken \o buffer ELSE taken
  /\ drainedBeforeStart' =
       (drainedBeforeStart
          \/ (name \in {"abandon_client_auth", "take_handshake_buf"}
                /\ ~ctx.some))
  /\ enabledFirst' =
       (enabledFirst \/ (name = "set_client_auth_enabled" /\ fed = <<>>))
  /\ abandoned' = (abandoned \/ name = "abandon_client_auth")
  /\ repeated' = (name = op /\ ~panicked)

\* A failed assert!/unwrap: the call panics before touching any field.
Panic(name, a) ==
  /\ panicked' = TRUE
  /\ op' = name
  /\ arg' = a
  /\ ret' = <<>>
  /\ pre' = Fields
  /\ abandonThenFeeds' = FALSE
  /\ repeated' = FALSE
  /\ UNCHANGED <<prog, fed, fedSinceDrain, selCapture,
                 abandonedOn, abandonedActive,
                 hashed, taken, drainedBeforeStart, enabledFirst, abandoned>>

\* The call returned r.
Called(name, a, r) ==
  /\ panicked' = FALSE
  /\ op' = name
  /\ arg' = a
  /\ ret' = r
  /\ pre' = Fields
  /\ Track(name, a)

\* Variant: the assert!(self.ctx.is_none()) is missing.
set_client_auth_enabled_unchecked ==
  /\ ~panicked
  /\ client_auth_enabled' = TRUE
  /\ UNCHANGED <<ctx, buffer>>
  /\ Called("set_client_auth_enabled", <<>>, <<>>)

set_client_auth_enabled ==
  /\ ~panicked
  /\ IF ctx.some
     THEN Panic("set_client_auth_enabled", <<>>)
     ELSE /\ client_auth_enabled' = TRUE
          /\ UNCHANGED <<ctx, buffer>>
          /\ Called("set_client_auth_enabled", <<>>, <<>>)

\* Variant: the context is dropped along with the transcript.
abandon_client_auth_drops_context ==
  /\ ~panicked
  /\ client_auth_enabled' = FALSE
  /\ buffer' = <<>>
  /\ ctx' = NoCtx
  /\ Called("abandon_client_auth", <<>>, <<>>)

\* Variant: only the flag is cleared, the buffer is kept.
abandon_client_auth_keeps_buffer ==
  /\ ~panicked
  /\ client_auth_enabled' = FALSE
  /\ UNCHANGED <<ctx, buffer>>
  /\ Called("abandon_client_auth", <<>>, <<>>)

abandon_client_auth ==
  /\ ~panicked
  /\ client_auth_enabled' = FALSE
  /\ buffer' = <<>>
  /\ UNCHANGED ctx
  /\ Called("abandon_client_auth", <<>>, <<>>)

\* Variant: the buffer is drained whether or not client auth is enabled.
start_hash_always_drains(alg) ==
  /\ ~panicked
  /\ IF ctx.some
     THEN Panic("start_hash", <<alg>>)
     ELSE /\ ctx' = ContextUpdate(ContextNew(alg), buffer)
          /\ buffer' = <<>>
          /\ UNCHANGED client_auth_enabled
          /\ Called("start_hash", <<alg>>, <<>>)

\* Variant: the buffer is discarded before the new context is fed from it.
start_hash_drains_first(alg) ==
  /\ ~panicked
  /\ IF ctx.some
     THEN Panic("start_hash", <<alg>>)
     ELSE /\ buffer' = IF ~client_auth_enabled THEN <<>> ELSE buffer
          /\ ctx' = ContextUpdate(ContextNew(alg), buffer')
          /\ UNCHANGED client_auth_enabled
          /\ Called("start_hash", <<alg>>, <<>>)

\* Variant: the buffer is never discarded.
start_hash_keeps_buffer(alg) ==
  /\ ~panicked
  /\ IF ctx.some
     THEN Panic("start_hash", <<alg>>)
     ELSE /\ ctx' = ContextUpdate(ContextNew(alg), buffer)
          /\ UNCHANGED <<buffer, client_auth_enabled>>
          /\ Called("start_hash", <<alg>>, <<>>)

\* Variant: the assert!(self.ctx.is_none()) is missing.
start_hash_unchecked(alg) ==
  /\ ~panicked
  /\ ctx' = ContextUpdate(ContextNew(alg), buffer)
  /\ buffer' = IF ~client_auth_enabled THEN <<>> ELSE buffer
  /\ UNCHANGED client_auth_enabled
  /\ Called("start_hash", <<alg>>, <<>>)

\* Variant: the new context is not fed the buffer.
start_hash_unseeded(alg) ==
  /\ ~panicked
  /\ IF ctx.some
     THEN Panic("start_hash", <<alg>>)
     ELSE /\ ctx' = ContextNew(alg)
          /\ buffer' = IF ~client_auth_enabled THEN <<>> ELSE buffer
          /\ UNCHANGED client_auth_enabled
          /\ Called("start_hash", <<alg>>, <<>>)

start_hash(alg) ==
  /\ ~panicked
  /\ IF ctx.some
     THEN Panic("start_hash", <<alg>>)
     ELSE /\ ctx' = ContextUpdate(ContextNew(alg), buffer)
          /\ buffer' = IF ~client_auth_enabled THEN <<>> ELSE buffer
          /\ UNCHANGED client_auth_enabled
          /\ Called("start_hash", <<alg>>, <<>>)

\* Variant: the slice is buffered unconditionally.
update_raw_always_buffers(buf) ==
  /\ ~panicked
  /\ Len(fed) + Len(buf) <= MaxFed
  /\ ctx' = IF ctx.some THEN ContextUpdate(ctx, buf) ELSE ctx
  /\ buffer' = buffer \o buf
  /\ UNCHANGED client_auth_enabled
  /\ Called("update_raw", buf, <<>>)

\* Variant: the slice is hashed or buffered, never both.
update_raw_hash_or_buffer(buf) ==
  /\ ~panicked
  /\ Len(fed) + Len(buf) <= MaxFed
  /\ ctx' = IF ctx.some THEN ContextUpdate(ctx, buf) ELSE ctx
  /\ buffer' = IF ~ctx.some THEN buffer \o buf ELSE buffer
  /\ UNCHANGED client_auth_enabled
  /\ Called("update_raw", buf, <<>>)

update_raw(buf) ==
  /\ ~panicked
  /\ Len(fed) + Len(buf) <= MaxFed
  /\ ctx' = IF ctx.some THEN ContextUpdate(ctx, buf) ELSE ctx
  /\ buffer' = IF ~ctx.some \/ client_auth_enabled THEN buffer \o buf ELSE buffer
  /\ UNCHANGED client_auth_enabled
  /\ Called("update_raw", buf, <<>>)

\* Variant: with no context the hash of nothing is returned instead of
\* unwrapping None.
get_current_hash_or_empty ==
  /\ ~panicked
  /\ UNCHANGED prog
  /\ Called("get_current_hash", <<>>, IF ctx.some THEN ContextFinish(ctx) ELSE <<>>)

\* Variant: the context is finished in place (taken out of self) instead of
\* a clone of it.
get_current_hash_consumes ==
  /\ ~panicked
  /\ IF ~ctx.some
     THEN Panic("get_current_hash", <<>>)
     ELSE /\ ctx' = NoCtx
          /\ UNCHANGED <<client_auth_enabled, buffer>>
          /\ Called("get_current_hash", <<>>, ContextFinish(ctx))

get_current_hash ==
  /\ ~panicked
  /\ IF ~ctx.some
     THEN Panic("get_current_hash", <<>>)
     ELSE /\ UNCHANGED prog
          /\ Called("get_current_hash", <<>>, ContextFinish(ctx))

\* Variant: the buffer is cloned instead of replaced.
take_handshake_buf_copies ==
  /\ ~panicked
  /\ IF ~client_auth_enabled
     THEN Panic("take_handshake_buf", <<>>)
     ELSE /\ UNCHANGED prog
          /\ Called("take_handshake_buf", <<>>, buffer)

\* Variant: the assert!(self.client_auth_enabled) is missing.
take_handshake_buf_unchecked ==
  /\ ~panicked
  /\ buffer' = <<>>
  /\ UNCHANGED <<ctx, client_auth_enabled>>
  /\ Called("take_handshake_buf", <<>>, buffer)

take_handshake_buf ==
  /\ ~panicked
  /\ IF ~client_auth_enabled
     THEN Panic("take_handshake_buf", <<>>)
     ELSE /\ buffer' = <<>>
          /\ UNCHANGED <<ctx, client_auth_enabled>>
          /\ Called("take_handshake_buf", <<>>, buffer)

Next ==
  \/ set_client_auth_enabled
  \/ abandon_client_auth
  \/ \E alg \in Algs : start_hash(alg)
  \/ \E buf \in Chunks : update_raw(buf)
  \/ get_current_hash
  \/ take_handshake_buf

Spec == Init /\ [][Next]_vars

\* s ends with t.
IsSuffix(t, s) ==
  /\ Len(t) <= Len(s)
  /\ SubSeq(s, Len(s) - Len(t) + 1, Len(s)) = t

(* ======================= properties ======================= *)

\* C1: whenever get_current_hash returns, the value is the digest, under the
\* selected algorithm, of every byte ever passed to update_raw, in order --
\* whatever abandon_client_auth / set_client_auth_enabled calls were made.
C1_DigestCoversAllFed ==
  (op = "get_current_hash" /\ ~panicked) => ret = Digest(ctx.alg, fed)

\* C2 (as stated): once abandon_client_auth has been called, in whichever
\* state, the buffer is empty and stays empty under any run of update_raw
\* calls that follows.
C2_AbandonNeverRefilled ==
  abandonThenFeeds => buffer = <<>>

\* C2 (amended): abandon_client_auth always leaves the buffer empty; when the
\* context is live, no run of update_raw calls after it refills the buffer.
C2_AbandonEmptiesAndActiveStaysEmpty ==
  /\ (op = "abandon_client_auth" => buffer = <<>>)
  /\ ((abandonThenFeeds /\ ctx.some) => buffer = <<>>)

C2_Witness ==
  /\ abandonThenFeeds
  /\ ctx.some
  /\ op = "update_raw"
  /\ arg # <<>>
  /\ Len(fed) > Len(arg)
  /\ buffer = <<>>

\* C3 (as stated): once abandon_client_auth has been called while client
\* auth was enabled, client_auth_enabled is false in every later state.
C3_AbandonIrreversible ==
  abandonedOn => ~client_auth_enabled

\* C3 (amended): once abandon_client_auth has been called while client auth
\* was enabled and the context was live, client_auth_enabled is false in
\* every later state.
C3_AbandonIrreversibleOnceActive ==
  abandonedActive => ~client_auth_enabled

C3_Witness ==
  /\ abandonedActive
  /\ op = "set_client_auth_enabled"
  /\ panicked
  /\ ~client_auth_enabled

\* C4 (as stated): once start_hash has been called with client auth enabled,
\* the buffer is the concatenation of every byte ever fed.
C4_BufferIsWholeTranscript ==
  selCapture = "on" => buffer = fed

\* C4 (amended): once start_hash has been called with client auth enabled,
\* and for as long as client auth stays enabled, every update_raw appends its
\* slice to the buffer, and the buffer is the concatenation of the bytes fed
\* since the last take_handshake_buf or abandon_client_auth (of every byte
\* ever fed when there was none).
C4_BufferIsTranscriptSinceDrain ==
  (selCapture = "on" /\ client_auth_enabled) =>
    /\ buffer = fedSinceDrain
    /\ (op = "update_raw" => buffer = pre.buffer \o arg)

C4_Witness ==
  /\ selCapture = "on"
  /\ client_auth_enabled
  /\ op = "update_raw"
  /\ arg # <<>>
  /\ pre.buffer # <<>>
  /\ buffer = fed

\* C5: while no hash function has been chosen, the buffer is the
\* concatenation of every byte fed so far, client auth enabled or not.
C5_PreSelectionBufferIsAllFed ==
  ~ctx.some => buffer = fed

\* C6: right after start_hash(alg) the current hash value is the digest under
\* alg of the buffer as it was when start_hash was called, bytes in order.
C6_SeedingEquivalence ==
  (op = "start_hash" /\ ~panicked) =>
    /\ ~pre.ctx.some
    /\ ContextFinish(ctx) = Digest(arg[1], pre.buffer)

C6_Witness ==
  /\ op = "start_hash"
  /\ ~panicked
  /\ Len(pre.buffer) >= 2
  /\ pre.buffer[1] # pre.buffer[2]

\* C7: once start_hash has been called with client auth disabled, the buffer
\* is empty in every later state.
C7_NoCaptureBufferStaysEmpty ==
  selCapture = "off" => buffer = <<>>

C7_Witness ==
  /\ selCapture = "off"
  /\ op = "update_raw"
  /\ arg # <<>>
  /\ Len(fed) > Len(arg)
  /\ ~abandonThenFeeds
  /\ buffer = <<>>

\* C8: with client auth enabled, take_handshake_buf returns exactly the
\* buffer and leaves it empty, ctx and client_auth_enabled untouched; called
\* again at once it returns the empty sequence.
C8_TakeStep ==
  (op' = "take_handshake_buf" /\ client_auth_enabled) =>
    /\ ~panicked'
    /\ ret' = buffer
    /\ buffer' = <<>>
    /\ UNCHANGED <<ctx, client_auth_enabled>>
    /\ ((op = "take_handshake_buf" /\ ~panicked) => ret' = <<>>)

C8_DrainSingleUse == [][C8_TakeStep]_vars

C8_Witness ==
  /\ op = "take_handshake_buf"
  /\ ~panicked
  /\ Len(ret) >= 2
  /\ buffer = <<>>
  /\ ctx.some

\* C9: the context goes from None to Some at most once and never back: only
\* a start_hash call made with no context creates one, a live context keeps
\* its algorithm under every later call, and start_hash with a live context
\* panics instead of starting a second one.
C9_Step ==
  /\ (ctx.some => (ctx'.some /\ ctx'.alg = ctx.alg))
  /\ (ctx'.some # ctx.some => (op' = "start_hash" /\ ~panicked'))
  /\ ((op' = "start_hash" /\ ~ctx.some) => (ctx'.some /\ ~panicked'))
  /\ ((op' = "start_hash" /\ ctx.some) => (panicked' /\ ctx' = ctx))

C9_SingleTransition == [][C9_Step]_vars

C9_Witness ==
  /\ op = "start_hash"
  /\ panicked
  /\ pre.ctx.some
  /\ arg[1] # ctx.alg

\* C10: set_client_auth_enabled succeeds exactly when there is no context
\* (client_auth_enabled becomes true, buffer and ctx untouched) and panics
\* when there is one; so with a live context client_auth_enabled never goes
\* from false to true.
C10_Step ==
  /\ ((op' = "set_client_auth_enabled" /\ ~ctx.some) =>
        /\ ~panicked'
        /\ client_auth_enabled'
        /\ UNCHANGED <<ctx, buffer>>)
  /\ ((op' = "set_client_auth_enabled" /\ ctx.some) =>
        /\ panicked'
        /\ UNCHANGED <<ctx, client_auth_enabled, buffer>>)
  /\ ((ctx.some /\ ~client_auth_enabled) => ~client_auth_enabled')

C10_EnableOnlyBeforeStart == [][C10_Step]_vars

C10_Witness ==
  /\ op = "set_client_auth_enabled"
  /\ panicked
  /\ ctx.some
  /\ ~client_auth_enabled
  /\ selCapture = "off"

\* C11: take_handshake_buf panics in every state where client_auth_enabled is
\* false (also after abandon_client_auth, whatever had been buffered) and
\* returns in every state where it is true, with or without a context.
C11_Step ==
  (op' = "take_handshake_buf") =>
    /\ (panicked' <=> ~client_auth_enabled)
    /\ (~client_auth_enabled => UNCHANGED prog)

C11_TakeNeedsClientAuth == [][C11_Step]_vars

C11_Witness ==
  /\ op = "take_handshake_buf"
  /\ panicked
  /\ abandonedOn
  /\ fed # <<>>
  /\ ~client_auth_enabled

\* C12: get_current_hash panics in every state with no context and returns
\* a hash value in every state with one.
C12_Step ==
  (op' = "get_current_hash") =>
    /\ (panicked' <=> ~ctx.some)
    /\ (ctx.some => ret' = ContextFinish(ctx))
    /\ (~ctx.some => (ret' = <<>> /\ UNCHANGED prog))

C12_HashNeedsContext == [][C12_Step]_vars

C12_Witness ==
  /\ op = "get_current_hash"
  /\ panicked
  /\ ~ctx.some
  /\ buffer # <<>>

\* C13: get_current_hash with a live context changes neither the context nor
\* client_auth_enabled nor the buffer, so the hash a later call returns and
\* the effect of later update_raw calls are what they would have been without
\* it; called twice in a row it returns the same value twice.
C13_Step ==
  (op' = "get_current_hash" /\ ctx.some) =>
    /\ UNCHANGED <<ctx, client_auth_enabled, buffer>>
    /\ UNCHANGED <<fed, hashed, taken>>
    /\ ContextFinish(ctx') = ret'
    /\ ((op = "get_current_hash" /\ ~panicked) => ret' = ret)

C13_HashIsNonDestructive == [][C13_Step]_vars

C13_Witness ==
  /\ op = "get_current_hash"
  /\ ~panicked
  /\ repeated
  /\ hashed # <<>>
  /\ buffer # <<>>
  /\ ret = ContextFinish(ctx)

\* C14: abandon_client_auth with a live context clears client_auth_enabled
\* and the buffer and leaves the context alone, so the current hash is the
\* same before and after; after update_raw calls that follow, the hash is the
\* digest of the bytes hashed before the call followed by those fed after it.
C14_Step ==
  /\ ((op' = "abandon_client_auth" /\ ctx.some) =>
        /\ ~client_auth_enabled'
        /\ buffer' = <<>>
        /\ ctx' = ctx
        /\ ContextFinish(ctx') = ContextFinish(ctx)
        /\ hashed' = hashed)
  /\ ((abandonThenFeeds /\ ctx.some /\ op' = "update_raw") =>
        /\ hashed' = hashed \o arg'
        /\ IsSuffix(fedSinceDrain', hashed')
        /\ ctx'.some
        /\ ContextFinish(ctx') = Digest(ctx.alg, hashed'))

C14_AbandonKeepsHash == [][C14_Step]_vars

C14_Witness ==
  /\ abandonThenFeeds
  /\ abandonedActive
  /\ ctx.some
  /\ op = "update_raw"
  /\ arg # <<>>
  /\ Len(hashed) > Len(fedSinceDrain)
  /\ ContextFinish(ctx) = Digest(ctx.alg, hashed)

\* C15: update_raw(b) never panics; with a live context it adds b to what the
\* context has hashed; it appends b to the buffer exactly when there is no
\* context or client auth is enabled (with both a context and client auth, b
\* goes to both) and otherwise leaves the buffer alone; it changes neither
\* client_auth_enabled nor whether there is a context.
C15_Step ==
  (op' = "update_raw") =>
    /\ ~panicked'
    /\ client_auth_enabled' = client_auth_enabled
    /\ ctx'.some = ctx.some
    /\ ctx'.alg = ctx.alg
    /\ IF ctx.some
       THEN ContextFinish(ctx') = Digest(ctx.alg, hashed \o arg')
       ELSE ctx' = ctx
    /\ IF ~ctx.some \/ client_auth_enabled
       THEN buffer' = buffer \o arg'
       ELSE buffer' = buffer

C15_FeedHashesAndBuffers == [][C15_Step]_vars

C15_Witness ==
  /\ op = "update_raw"
  /\ ctx.some
  /\ client_auth_enabled
  /\ Len(arg) = 2
  /\ arg[1] # arg[2]
  /\ buffer = pre.buffer \o arg
  /\ ContextFinish(ctx) # ContextFinish(pre.ctx)

\* C16: if neither abandon_client_auth nor take_handshake_buf was called
\* while there was no context, then in every state with a context the
\* current hash (and what get_current_hash has just returned) is the digest
\* of every byte ever fed, in order, whatever calls were made otherwise.
C16_HashCoversAllFedUnlessDrainedEarly ==
  (ctx.some /\ ~drainedBeforeStart) =>
    /\ ContextFinish(ctx) = Digest(ctx.alg, fed)
    /\ ((op = "get_current_hash" /\ ~panicked) => ret = Digest(ctx.alg, fed))

C16_Witness ==
  /\ ctx.some
  /\ ~drainedBeforeStart
  /\ abandonedActive
  /\ taken # <<>>
  /\ Len(fed) > Len(taken)
  /\ op = "get_current_hash"
  /\ ~panicked
  /\ ret = Digest(ctx.alg, fed)

\* C17: in every state the buffer is a (possibly empty, possibly whole) tail
\* of the concatenation of every byte fed so far, and with a live context the
\* bytes the context has hashed are such a tail too.
C17_BufferAndHashedAreTails ==
  /\ IsSuffix(buffer, fed)
  /\ (ctx.some =>
        \E k \in 0..Len(fed) :
          ContextFinish(ctx) = Digest(ctx.alg, SubSeq(fed, k + 1, Len(fed))))

C17_Witness ==
  /\ ctx.some
  /\ buffer # <<>>
  /\ Len(buffer) < Len(hashed)
  /\ Len(hashed) < Len(fed)
  /\ ContextFinish(ctx) = Digest(ctx.alg, hashed)
  /\ ContextFinish(ctx) # Digest(ctx.alg, fed)

\* C18: in every state with a live context and client auth disabled the
\* buffer is empty, whether client auth was off at start_hash or was
\* abandoned afterwards.
C18_ActiveWithoutClientAuthHasNoBuffer ==
  (ctx.some /\ ~client_auth_enabled) => buffer = <<>>

C18_Witness ==
  /\ ctx.some
  /\ ~client_auth_enabled
  /\ selCapture = "on"
  /\ op = "update_raw"
  /\ arg # <<>>
  /\ Len(hashed) > Len(arg)
  /\ buffer = <<>>

\* C19: if set_client_auth_enabled was called before any byte was fed and
\* abandon_client_auth was never called, then in every state everything
\* take_handshake_buf has returned so far, in order, followed by the buffer
\* is exactly every byte fed so far, in order: successive drains return
\* consecutive segments of the transcript, no byte lost or returned twice.
C19_DrainsPartitionTranscript ==
  (enabledFirst /\ ~abandoned) =>
    /\ taken \o buffer = fed
    /\ buffer = fedSinceDrain
    /\ ((op = "take_handshake_buf" /\ ~panicked) =>
          /\ IsSuffix(ret, taken)
          /\ taken = fed)

C19_Witness ==
  /\ enabledFirst
  /\ ~abandoned
  /\ ctx.some
  /\ op = "take_handshake_buf"
  /\ ~panicked
  /\ ~repeated
  /\ ret # <<>>
  /\ Len(taken) > Len(ret)
  /\ taken = fed

====
